---- MODULE Spec2Model ----
(***************************************************************************)
(* Model of api/src/services/audio.py: AudioNormalizer (normalize,         *)
(* find_first_last_non_silent) and AudioService (trim_audio,               *)
(* convert_audio with the class-level _writers map).                       *)
(*                                                                         *)
(* Representation choices                                                  *)
(*  - A sample buffer (numpy array) is a run-length encoded sequence of    *)
(*    runs [v |-> sample value, n |-> number of consecutive samples], with *)
(*    n > 0 and adjacent runs of different value.  Indices are 0-based as  *)
(*    in the source.  This is exact for every buffer and keeps buffers of  *)
(*    thousands of samples (the 50 ms pad is 1200 samples) small.          *)
(*  - Float samples (input of normalize) are thousandths: v stands for     *)
(*    v/1000.                                                              *)
(*  - speed is a positive rational [num, den].                             *)
(*  - A pad multiplier is given in tenths (10 stands for 1, 8 for 0.8).    *)
(*  - Times are counted in units of 1/24000 s, so that the source's        *)
(*    "start_index / 24000" seconds is start_index units.                  *)
(*  - settings.* (core/config.py) is an input: a record cfg.               *)
(***************************************************************************)
EXTENDS Integers, Sequences, FiniteSets, TLC

VARIABLES writers, objs, log, loc, trm, pads

vars == <<writers, objs, log, loc, trm, pads>>

(***************************************************************************)
(* Arithmetic helpers of the source                                        *)
(***************************************************************************)
Max(a, b) == IF a >= b THEN a ELSE b

Min(a, b) == IF a <= b THEN a ELSE b

\* int(x) for a rational x = p/q, q > 0: truncation toward zero
IntTrunc(p, q) == IF p >= 0 THEN p \div q ELSE -((-p) \div q)

\* math.ceil(p / q) for q > 0
Ceil(p, q) == IF p >= 0 THEN (p + q - 1) \div q ELSE -((-p) \div q)

(***************************************************************************)
(* Sample buffers                                                          *)
(***************************************************************************)
RECURSIVE BufLen(_)
BufLen(b) == IF b = <<>> THEN 0 ELSE Head(b).n + BufLen(Tail(b))

\* joins adjacent runs of equal value (keeps the encoding canonical)
RECURSIVE Canon(_)
Canon(b) ==
  IF Len(b) <= 1 THEN b
  ELSE IF b[1].v = b[2].v
       THEN Canon(<<[v |-> b[1].v, n |-> b[1].n + b[2].n]>> \o Tail(Tail(b)))
       ELSE <<b[1]>> \o Canon(Tail(b))

\* the samples of b with index in [lo, hi), 0 <= lo, hi
RECURSIVE Cut(_, _, _)
Cut(b, lo, hi) ==
  IF b = <<>> THEN <<>>
  ELSE LET r == Head(b)
           a == Max(lo, 0)
           z == Min(hi, r.n)
       IN (IF a < z THEN <<[v |-> r.v, n |-> z - a]>> ELSE <<>>)
          \o Cut(Tail(b), lo - r.n, hi - r.n)

\* Python's a[start:stop] index normalisation: a negative index counts from
\* the end, and both are clamped to [0, len]
SliceIndex(i, len) == IF i < 0 THEN Max(i + len, 0) ELSE Min(i, len)

\* audio[start:stop]
PySlice(b, start, stop) ==
  Cut(b, SliceIndex(start, BufLen(b)), SliceIndex(stop, BufLen(b)))

(***************************************************************************)
(* AudioNormalizer                                                         *)
(***************************************************************************)
sample_rate == 24000

\* self.samples_to_trim
samples_to_trim(cfg) == IntTrunc(cfg.gap_trim_ms * sample_rate, 1000)

samples_to_pad_start == IntTrunc(50 * sample_rate, 1000)

\* np.iinfo(int16).max * 10 ** (-45 / 20) = 184.26...; for integer samples
\* "sample > 184.26" is "sample > 184"
amplitude_threshold == 184

\* the test of lines 60 and 65
IsNonSilent(sample) == sample > amplitude_threshold

Whitespace == {" ", "\n", "\t"}

\* chunk_text.strip(), chunk_text a sequence of characters
RECURSIVE Strip(_)
Strip(text) ==
  IF text = <<>> THEN text
  ELSE IF Head(text) \in Whitespace THEN Strip(Tail(text))
  ELSE IF text[Len(text)] \in Whitespace THEN Strip(SubSeq(text, 1, Len(text) - 1))
  ELSE text

\* pad_multiplier, in tenths
pad_multiplier(cfg, chunk_text) ==
  LET split_character == Strip(chunk_text)
  IN IF Len(split_character) > 0
        /\ split_character[Len(split_character)]
             \in DOMAIN cfg.dynamic_gap_trim_padding_char_multiplier
     THEN cfg.dynamic_gap_trim_padding_char_multiplier[split_character[Len(split_character)]]
     ELSE 10

\* line 51 without the subtraction of samples_to_pad_start
samples_to_pad_end_whole(cfg, chunk_text, is_last_chunk) ==
  IF ~is_last_chunk
  THEN Max(IntTrunc(cfg.dynamic_gap_trim_padding_ms * sample_rate
                      * pad_multiplier(cfg, chunk_text), 1000 * 10), 0)
  ELSE samples_to_pad_start

samples_to_pad_end(cfg, chunk_text, is_last_chunk) ==
  IF ~is_last_chunk
  THEN Max(IntTrunc(cfg.dynamic_gap_trim_padding_ms * sample_rate
                      * pad_multiplier(cfg, chunk_text), 1000 * 10)
           - samples_to_pad_start, 0)
  ELSE samples_to_pad_start

None == -1

\* first loop: the smallest X with audio_data[X] non-silent, or None
RECURSIVE ScanForward(_, _)
ScanForward(b, off) ==
  IF b = <<>> THEN None
  ELSE IF IsNonSilent(Head(b).v) THEN off
  ELSE ScanForward(Tail(b), off + Head(b).n)

\* second loop: the largest X with audio_data[X] non-silent, or None
RECURSIVE ScanBackward(_)
ScanBackward(b) ==
  IF b = <<>> THEN None
  ELSE IF IsNonSilent(b[Len(b)].v) THEN BufLen(b) - 1
  ELSE ScanBackward(SubSeq(b, 1, Len(b) - 1))

\* a trailing pad that grows with the speed
TrailingPadTimesSpeed(pad_end, speed) == Ceil(pad_end * speed.num, speed.den)

\* line 73: math.ceil(samples_to_pad_end / speed)
TrailingPad(pad_end, speed) == Ceil(pad_end * speed.den, speed.num)

\* the returned end index when the buffer is not silent (line 73, second
\* component)
EndIndex(non_silent_index_end, pad_end, speed, len) ==
  Min(non_silent_index_end + TrailingPad(pad_end, speed), len)

\* line 73 without the clamp at 0
StartIndexUnclamped(non_silent_index_start) ==
  non_silent_index_start - samples_to_pad_start

\* the returned start index when the buffer is not silent (line 73, first
\* component)
StartIndex(non_silent_index_start) ==
  Max(non_silent_index_start - samples_to_pad_start, 0)

\* lines 70-71 returning an empty range for a silent buffer
find_first_last_silent_empty(cfg, audio_data, chunk_text, speed, is_last_chunk) ==
  LET non_silent_index_start == ScanForward(audio_data, 0)
      non_silent_index_end == ScanBackward(audio_data)
  IN IF non_silent_index_start = None \/ non_silent_index_end = None
     THEN <<0, 0>>
     ELSE <<StartIndex(non_silent_index_start),
            EndIndex(non_silent_index_end,
                     samples_to_pad_end(cfg, chunk_text, is_last_chunk),
                     speed, BufLen(audio_data))>>

find_first_last_non_silent(cfg, audio_data, chunk_text, speed, is_last_chunk) ==
  LET non_silent_index_start == ScanForward(audio_data, 0)
      non_silent_index_end == ScanBackward(audio_data)
  IN IF non_silent_index_start = None \/ non_silent_index_end = None
     THEN <<0, BufLen(audio_data)>>
     ELSE <<StartIndex(non_silent_index_start),
            EndIndex(non_silent_index_end,
                     samples_to_pad_end(cfg, chunk_text, is_last_chunk),
                     speed, BufLen(audio_data))>>

\* np.clip(x * 32767, -32768, 32767).astype(np.int16) for one sample
NormalizeSample(x) == IntTrunc(Max(Min(x * 32767, 32767 * 1000), -32768 * 1000), 1000)

\* normalize: "raise" on an empty buffer, else the scaled buffer
normalize(audio_data) ==
  IF BufLen(audio_data) = 0
  THEN [raised |-> TRUE, audio |-> audio_data]
  ELSE [raised |-> FALSE,
        audio |-> Canon([i \in 1..Len(audio_data) |->
                           [v |-> NormalizeSample(audio_data[i].v),
                            n |-> audio_data[i].n]])]

(***************************************************************************)
(* AudioService.trim_audio                                                 *)
(* A chunk is [audio, word_timestamps]; word_timestamps is a sequence of   *)
(* [word, start_time, end_time].  word_timestamps = None and an empty list *)
(* take the same path through lines 205-208 and are both <<>>.             *)
(***************************************************************************)
\* lines 197-198: audio[samples_to_trim : -samples_to_trim] when long enough
HeadTailTrim(cfg, audio) ==
  IF BufLen(audio) > 2 * samples_to_trim(cfg)
  THEN PySlice(audio, samples_to_trim(cfg), -samples_to_trim(cfg))
  ELSE audio

\* lines 207-208 with the times clamped at 0
RebaseClamped(timestamp, start_index) ==
  [timestamp EXCEPT !.start_time = Max(@ - start_index, 0),
                    !.end_time = Max(@ - start_index, 0)]

\* lines 207-208: one timestamp after "-= start_index / 24000"
Rebase(timestamp, start_index) ==
  [timestamp EXCEPT !.start_time = @ - start_index,
                    !.end_time = @ - start_index]

\* the mutated chunk, with the values the call computed on the way:
\* after_fixed = the buffer after lines 197-198,
\* cut_front = samples removed from the front by lines 197-198,
\* start_index, end_index = the range returned by the locator
trim_audio(cfg, audio_chunk, chunk_text, speed, is_last_chunk) ==
  LET a1 == HeadTailTrim(cfg, audio_chunk.audio)
      range == find_first_last_non_silent(cfg, a1, chunk_text, speed, is_last_chunk)
  IN [audio |-> PySlice(a1, range[1], range[2]),
      word_timestamps |->
        [i \in 1..Len(audio_chunk.word_timestamps) |->
           Rebase(audio_chunk.word_timestamps[i], range[1])],
      cut_front |-> IF BufLen(audio_chunk.audio) > 2 * samples_to_trim(cfg)
                    THEN SliceIndex(samples_to_trim(cfg), BufLen(audio_chunk.audio))
                    ELSE 0,
      after_fixed |-> a1,
      start_index |-> range[1],
      end_index |-> range[2]]

(***************************************************************************)
(* AudioService.convert_audio                                              *)
(*                                                                         *)
(* writers is AudioService._writers: a function from the writer keys       *)
(* present to writer ids.  objs[id] is the StreamingAudioWriter object     *)
(* constructed id-th: the key it was constructed for, the blocks passed to *)
(* write_chunk(audio) and the number of write_chunk(finalize=True) calls.  *)
(* The writer is a collaborator: whether its write or its finalize raises  *)
(* is an input of the call (fault).                                        *)
(*                                                                         *)
(* convert_audio has a single await, on normalize, which never suspends,   *)
(* so a call runs to completion on the event loop: one call, one step.     *)
(***************************************************************************)
SUPPORTED_FORMATS == {"wav", "mp3", "opus", "flac", "aac", "pcm", "ogg"}

\* line 144 missing: every format passes
FormatSupportedAll(output_format) == TRUE

\* line 144
FormatSupported(output_format) == output_format \in SUPPORTED_FORMATS

\* line 155 with the sample rate left out of the key
WriterKeyFormatOnly(output_format, rate) == <<output_format, 0>>

\* line 155: f"{output_format}_{sample_rate}"; formats hold no digit and no
\* underscore, so the string determines the pair and the pair stands for it
WriterKey(output_format, rate) == <<output_format, rate>>

\* line 156 constructing a writer only when the key is absent
NeedNewWriterIfAbsent(is_first_chunk, writer_key, ws) ==
  writer_key \notin DOMAIN ws

\* line 156 constructing a writer on every call
NeedNewWriterAlways(is_first_chunk, writer_key, ws) == TRUE

\* line 156
NeedNewWriter(is_first_chunk, writer_key, ws) ==
  is_first_chunk \/ writer_key \notin DOMAIN ws

\* line 163 skipping blocks of up to 6000 samples
ShouldWriteLong(audio) == BufLen(audio) > 6000

\* line 163
ShouldWrite(audio) == BufLen(audio) > 0

\* line 167 finalizing on every call
ShouldFinalizeAlways(is_last_chunk) == TRUE

\* line 167
ShouldFinalize(is_last_chunk) == is_last_chunk

\* _writers[writer_key] = w
DictSet(ws, writer_key, w) ==
  [k \in DOMAIN ws \cup {writer_key} |-> IF k = writer_key THEN w ELSE ws[k]]

\* del _writers[writer_key]
DictDel(ws, writer_key) == [k \in DOMAIN ws \ {writer_key} |-> ws[k]]

\* StreamingAudioWriter(output_format, sample_rate)
NewWriter(writer_key) == [key |-> writer_key, blocks |-> <<>>, finalized |-> 0]

\* the exceptions raised inside the try block
FormatError == [type |-> "ValueError", msg |-> "Format not supported", cause |-> ""]

EmptyError == [type |-> "ValueError", msg |-> "Empty audio data", cause |-> ""]

WriterError == [type |-> "Exception", msg |-> "writer failed", cause |-> ""]

UnboundError ==
  [type |-> "UnboundLocalError", msg |-> "chunk_data referenced before assignment", cause |-> ""]

NoError == [type |-> "", msg |-> "", cause |-> ""]

\* lines 174-178: every exception leaves as this ValueError
Reraise(e) ==
  [type |-> "ValueError", msg |-> "Failed to convert audio stream", cause |-> e.msg]

\* One call.  a = [audio_chunk, sample_rate, output_format, speed,
\* chunk_text, is_first_chunk, is_last_chunk, cfg, fault].  The result holds the
\* map and the writer objects after the call, the caller's chunk object as
\* the call leaves it, and what the call did:
\*   stage    where the call ended: "format", "normalize", "write",
\*            "finalize", "return" (raised there) or "done"
\*   created  id of the writer constructed by the call, 0 if none
\*   writer   id bound to the local "writer", 0 if line 160 was not reached
\*   wrote, finalized   write_chunk(audio) / write_chunk(finalize=True) called
convert_audio(ws, os, a) ==
  LET writer_key == WriterKey(a.output_format, a.sample_rate)
      norm == normalize(a.audio_chunk.audio)
      chunk1 == trim_audio(a.cfg,
                           [a.audio_chunk EXCEPT !.audio = norm.audio],
                           a.chunk_text, a.speed, a.is_last_chunk)
      chunk == [audio |-> chunk1.audio, word_timestamps |-> chunk1.word_timestamps]
      create == NeedNewWriter(a.is_first_chunk, writer_key, ws)
      os1 == IF create THEN Append(os, NewWriter(writer_key)) ELSE os
      ws1 == IF create THEN DictSet(ws, writer_key, Len(os1)) ELSE ws
      writer == ws1[writer_key]
      wrote == ShouldWrite(chunk.audio)
      os2 == IF wrote
             THEN [os1 EXCEPT ![writer].blocks = Append(@, chunk.audio)]
             ELSE os1
      os3 == [os2 EXCEPT ![writer].finalized = @ + 1]
      base == [writers |-> ws, objs |-> os, audio_chunk |-> a.audio_chunk,
               raised |-> TRUE, error |-> NoError, stage |-> "format",
               created |-> 0, writer |-> 0, wrote |-> FALSE, finalized |-> FALSE,
               returned |-> "none"]
      made == [base EXCEPT !.writers = ws1, !.audio_chunk = chunk,
                           !.created = IF create THEN Len(os1) ELSE 0,
                           !.writer = writer, !.wrote = wrote]
  IN IF ~FormatSupported(a.output_format)
     THEN [base EXCEPT !.error = Reraise(FormatError)]
     ELSE IF norm.raised
     THEN [base EXCEPT !.error = Reraise(EmptyError), !.stage = "normalize"]
     ELSE IF wrote /\ a.fault = "write"
     THEN [made EXCEPT !.objs = os2, !.error = Reraise(WriterError),
                       !.stage = "write"]
     ELSE IF ShouldFinalize(a.is_last_chunk) /\ a.fault = "finalize"
     THEN [made EXCEPT !.objs = os3, !.error = Reraise(WriterError),
                       !.stage = "finalize", !.finalized = TRUE]
     ELSE IF ShouldFinalize(a.is_last_chunk)
     THEN [made EXCEPT !.objs = os3, !.writers = DictDel(ws1, writer_key),
                       !.raised = FALSE, !.stage = "done", !.finalized = TRUE,
                       !.returned = "final_data"]
     ELSE IF ~wrote
     THEN [made EXCEPT !.objs = os2, !.error = Reraise(UnboundError),
                       !.stage = "return"]
     ELSE [made EXCEPT !.objs = os2, !.raised = FALSE, !.stage = "done",
                       !.returned = "chunk_data"]

(***************************************************************************)
(* Inputs                                                                  *)
(***************************************************************************)
MaxCalls == 3

Run(v, n) == [v |-> v, n |-> n]

Speed(num, den) == [num |-> num, den |-> den]

Config(gap, pad, table) ==
  [gap_trim_ms |-> gap, dynamic_gap_trim_padding_ms |-> pad,
   dynamic_gap_trim_padding_char_multiplier |-> table]

NoTable == [c \in {} |-> 10]

CommaDot == [c \in {",", "."} |-> IF c = "," THEN 20 ELSE 8]

Word(w, s, e) == [word |-> w, start_time |-> s, end_time |-> e]

\* float chunks handed to convert_audio
ChunkEmpty == [audio |-> <<>>, word_timestamps |-> <<>>]

ChunkA ==
  [audio |-> <<Run(0, 2400), Run(500, 2400), Run(0, 2400)>>,
   word_timestamps |-> <<Word("a", 2400, 4800)>>]

ChunkB ==
  [audio |-> <<Run(0, 1500), Run(-700, 600), Run(900, 600), Run(2, 1500)>>,
   word_timestamps |-> <<>>]

CallArgs(chunk, rate, format, first, last, cfg, fault) ==
  [audio_chunk |-> chunk, sample_rate |-> rate, output_format |-> format,
   speed |-> Speed(1, 1), chunk_text |-> <<"a", ",">>,
   is_first_chunk |-> first, is_last_chunk |-> last, cfg |-> cfg, fault |-> fault]

Faults == {"none", "write", "finalize"}

\* calls of the main specification: one supported key, every combination of
\* the flags, a chunk that normalize rejects, chunks that are written, a
\* configuration (gap_trim_ms = 0) under which the trimmed buffer is empty,
\* the faults of the writer, and an unsupported format
Calls ==
  { CallArgs(c, 24000, "wav", f, l, Config(1, 410, CommaDot), x) :
      c \in {ChunkEmpty, ChunkA}, f \in BOOLEAN, l \in BOOLEAN, x \in Faults }
  \cup
  { CallArgs(ChunkB, 24000, "wav", f, l, Config(1, 410, CommaDot), "none") :
      f \in BOOLEAN, l \in BOOLEAN }
  \cup
  { CallArgs(ChunkA, 24000, "wav", f, l, Config(0, 410, CommaDot), "none") :
      f \in BOOLEAN, l \in BOOLEAN }
  \cup
  { CallArgs(ChunkA, 24000, "midi", f, ~f, Config(1, 410, CommaDot), "none") :
      f \in BOOLEAN }

\* calls of the specification of streams under several keys
CallsKeys ==
  { CallArgs(ChunkA, r, fmt, f, l, Config(1, 410, CommaDot), x) :
      r \in {24000, 48000}, fmt \in {"wav"}, f \in BOOLEAN, l \in BOOLEAN,
      x \in Faults }

(***************************************************************************)
(* The state machine of convert_audio                                      *)
(***************************************************************************)
NoLoc == [done |-> FALSE]

NoTrm == [done |-> FALSE]

NoPad == [done |-> FALSE]

Init ==
  /\ writers = [k \in {} |-> 0]
  /\ objs = <<>>
  /\ log = <<>>
  /\ loc = NoLoc
  /\ trm = NoTrm
  /\ pads = NoPad

\* what the log keeps of a call: the chunk, format, rate and flags it was
\* given, what it did, and the keys of _writers when it returned or raised
LogEntry(a, r) ==
  [chunk_in |-> a.audio_chunk, output_format |-> a.output_format,
   sample_rate |-> a.sample_rate, is_first_chunk |-> a.is_first_chunk,
   is_last_chunk |-> a.is_last_chunk,
   key |-> WriterKey(a.output_format, a.sample_rate),
   audio_chunk |-> r.audio_chunk, raised |-> r.raised, error |-> r.error,
   stage |-> r.stage, created |-> r.created, writer |-> r.writer,
   wrote |-> r.wrote, finalized |-> r.finalized, returned |-> r.returned,
   live |-> DOMAIN r.writers]

Convert(a) ==
  /\ Len(log) < MaxCalls
  /\ LET r == convert_audio(writers, objs, a)
     IN /\ writers' = r.writers
        /\ objs' = r.objs
        /\ log' = Append(log, LogEntry(a, r))
  /\ UNCHANGED <<loc, trm, pads>>

Next == \E a \in Calls : Convert(a)

Spec == Init /\ [][Next]_vars

NextKeys == \E a \in CallsKeys : Convert(a)

SpecKeys == Init /\ [][NextKeys]_vars

(***************************************************************************)
(* find_first_last_non_silent applied to drawn inputs                      *)
(***************************************************************************)
\* int16 buffers: empty, silent, loud throughout, loud in the middle, loud
\* only with negative samples, negative then positive, at the threshold
LocBuffers ==
  { <<>>,
    <<Run(0, 3000)>>,
    <<Run(16000, 3000)>>,
    <<Run(185, 1)>>,
    <<Run(0, 2000), Run(16000, 500), Run(0, 2000)>>,
    <<Run(0, 2000), Run(-16000, 500), Run(0, 2000)>>,
    <<Run(-16000, 1500), Run(0, 100), Run(1000, 10), Run(0, 12000)>>,
    <<Run(184, 1300), Run(185, 1), Run(-185, 20000)>> }

Texts == { <<>>, <<" ">>, <<"a">>, <<"a", ",">>, <<"a", ".", " ">> }

Speeds == { Speed(1, 2), Speed(1, 1), Speed(3, 2), Speed(2, 1) }

Configs ==
  { Config(g, p, t) : g \in {0, 1, 50}, p \in {0, 50, 60, 410},
                      t \in {NoTable, CommaDot} }

LocInputs ==
  [audio_data : LocBuffers, chunk_text : Texts, speed : Speeds,
   is_last_chunk : BOOLEAN, cfg : { c \in Configs : c.gap_trim_ms = 1 }]

InitLocate ==
  /\ writers = [k \in {} |-> 0]
  /\ objs = <<>>
  /\ log = <<>>
  /\ trm = NoTrm
  /\ pads = NoPad
  /\ \E i \in LocInputs : loc = [done |-> FALSE, in |-> i, range |-> <<0, 0>>]

Locate ==
  /\ ~loc.done
  /\ loc' = [loc EXCEPT !.done = TRUE,
               !.range = find_first_last_non_silent(loc.in.cfg, loc.in.audio_data,
                           loc.in.chunk_text, loc.in.speed, loc.in.is_last_chunk)]
  /\ UNCHANGED <<writers, objs, log, trm, pads>>

NextLocate == Locate

SpecLocate == InitLocate /\ [][NextLocate]_vars

(***************************************************************************)
(* trim_audio applied to drawn inputs                                      *)
(***************************************************************************)
\* int16 chunks (trim_audio runs after normalize), with and without word
\* timestamps, shorter and longer than twice the fixed trim
TrimChunks ==
  { [audio |-> <<>>, word_timestamps |-> <<>>],
    [audio |-> <<Run(0, 48)>>, word_timestamps |-> <<Word("a", 0, 48)>>],
    [audio |-> <<Run(16000, 49)>>, word_timestamps |-> <<Word("a", 0, 30)>>],
    [audio |-> <<Run(0, 1200), Run(16000, 1200)>>,
     word_timestamps |-> <<Word("a", 1200, 2400)>>],
    [audio |-> <<Run(0, 3000), Run(16000, 1000), Run(0, 3000)>>,
     word_timestamps |-> <<Word("a", 3000, 3500), Word("b", 3500, 4000)>>],
    [audio |-> <<Run(0, 3000), Run(-16000, 1000), Run(0, 3000)>>,
     word_timestamps |-> <<Word("a", 3000, 4000)>>],
    [audio |-> <<Run(0, 1000), Run(16000, 1000), Run(0, 9000)>>,
     word_timestamps |-> <<Word("a", 500, 2000)>>],
    [audio |-> <<Run(0, 3000), Run(16000, 1000), Run(0, 3000)>>,
     word_timestamps |-> <<Word("a", 100, 500), Word("b", 3100, 3900)>>],
    [audio |-> <<Run(0, 3000), Run(16000, 1000), Run(0, 3000)>>,
     word_timestamps |-> <<>>] }

TrimInputs ==
  [audio_chunk : TrimChunks, chunk_text : { <<>>, <<"a", ",">> },
   speed : { Speed(1, 1), Speed(2, 1) }, is_last_chunk : BOOLEAN,
   cfg : { c \in Configs : c.dynamic_gap_trim_padding_ms \in {60, 410}
                           /\ c.dynamic_gap_trim_padding_char_multiplier = CommaDot }]

InitTrim ==
  /\ writers = [k \in {} |-> 0]
  /\ objs = <<>>
  /\ log = <<>>
  /\ loc = NoLoc
  /\ pads = NoPad
  /\ \E i \in TrimInputs : trm = [done |-> FALSE, in |-> i, out |-> i.audio_chunk]

Trim ==
  /\ ~trm.done
  /\ trm' = [trm EXCEPT !.done = TRUE,
               !.out = trim_audio(trm.in.cfg, trm.in.audio_chunk, trm.in.chunk_text,
                                  trm.in.speed, trm.in.is_last_chunk)]
  /\ UNCHANGED <<writers, objs, log, loc, pads>>

NextTrim == Trim

SpecTrim == InitTrim /\ [][NextTrim]_vars

(***************************************************************************)
(* The trailing pad of find_first_last_non_silent (lines 43-53 and the     *)
(* ceil of line 73), computed for two texts and two speeds under one       *)
(* configuration                                                           *)
(***************************************************************************)
PadSpeeds == Speeds \cup { Speed(10001, 10000) }

PadInputs ==
  [cfg : { c \in Configs : c.gap_trim_ms = 1 }, is_last_chunk : BOOLEAN,
   text1 : { <<"a">>, <<"a", ".">> }, text2 : { <<"a">>, <<"a", ",">> },
   speed1 : PadSpeeds, speed2 : PadSpeeds]

InitPad ==
  /\ writers = [k \in {} |-> 0]
  /\ objs = <<>>
  /\ log = <<>>
  /\ loc = NoLoc
  /\ trm = NoTrm
  /\ \E i \in PadInputs :
       pads = [done |-> FALSE, in |-> i, mult1 |-> 0, mult2 |-> 0,
              end1 |-> 0, end2 |-> 0, pad1 |-> 0, pad2 |-> 0]

\* mult = pad_multiplier (tenths), end = samples_to_pad_end,
\* pad = ceil(samples_to_pad_end / speed), for (text1, speed1) and for
\* (text2, speed2)
ComputePads ==
  /\ ~pads.done
  /\ LET i == pads.in
         e1 == samples_to_pad_end(i.cfg, i.text1, i.is_last_chunk)
         e2 == samples_to_pad_end(i.cfg, i.text2, i.is_last_chunk)
     IN pads' = [pads EXCEPT !.done = TRUE,
                  !.mult1 = pad_multiplier(i.cfg, i.text1),
                  !.mult2 = pad_multiplier(i.cfg, i.text2),
                  !.end1 = e1, !.end2 = e2,
                  !.pad1 = TrailingPad(e1, i.speed1),
                  !.pad2 = TrailingPad(e2, i.speed2)]
  /\ UNCHANGED <<writers, objs, log, loc, trm>>

NextPad == ComputePads

SpecPad == InitPad /\ [][NextPad]_vars

(***************************************************************************)
(* Properties                                                              *)
(***************************************************************************)
\* the last call made
LastCall == log[Len(log)]

\* C1: for every run of successful calls under one key, from a call with
\* is_first_chunk to the next call with is_last_chunk, with no other call under
\* the key in between carrying either flag: exactly one writer was constructed
\* (by the first call), finalize was requested exactly once (by the last
\* call, on that writer), and the key is not in _writers after the last call.
C1_OneWriterOneFinalize ==
  \A i \in 1..Len(log) : \A j \in i..Len(log) :
    LET k == log[i].key
        I == { m \in i..j : log[m].key = k }
    IN ( /\ log[j].key = k
         /\ log[i].is_first_chunk /\ log[j].is_last_chunk
         /\ \A m \in I : /\ ~log[m].raised
                         /\ (m # i => ~log[m].is_first_chunk)
                         /\ (m # j => ~log[m].is_last_chunk) )
       => /\ { m \in I : log[m].created # 0 } = {i}
          /\ { m \in I : log[m].finalized } = {j}
          /\ \A m \in I : log[m].writer = log[i].created
          /\ objs[log[i].created].finalized = 1
          /\ k \notin log[j].live

\* C1 witness: a stream of three successful calls (first, middle, last) has run
C1_Witness ==
  /\ Len(log) = 3
  /\ \A m \in 1..3 : ~log[m].raised /\ log[m].key = <<"wav", 24000>>
  /\ log[1].is_first_chunk /\ ~log[2].is_first_chunk /\ ~log[3].is_first_chunk
  /\ ~log[1].is_last_chunk /\ ~log[2].is_last_chunk /\ log[3].is_last_chunk
  /\ log[1].wrote /\ log[2].wrote

\* C2 (as claimed): after every call that raised in normalize, in the write or
\* in the finalize, the call's key is not in _writers.
C2_FailureRemovesEntry ==
  \A i \in 1..Len(log) :
    (log[i].raised /\ log[i].stage \in {"normalize", "write", "finalize"})
      => log[i].key \notin log[i].live

\* C3 (as claimed): no writer object has had finalize requested twice.
C3_FinalizeAtMostOnce ==
  \A w \in 1..Len(objs) : objs[w].finalized <= 1

\* C4: a call with a format outside the supported set raises and leaves
\* _writers, every writer object and the caller's chunk as they were.
C4_UnsupportedTouchesNothing ==
  [][ (Len(log') = Len(log) + 1
       /\ log'[Len(log')].output_format
            \notin {"wav", "mp3", "opus", "flac", "aac", "pcm", "ogg"})
      => /\ log'[Len(log')].raised
         /\ writers' = writers
         /\ objs' = objs
         /\ log'[Len(log')].audio_chunk = log'[Len(log')].chunk_in ]_vars

\* C4 witness: a "midi" call was rejected while a writer was live
C4_Witness ==
  /\ Len(log) >= 2
  /\ LastCall.output_format = "midi" /\ LastCall.raised
  /\ log[Len(log) - 1].live # {}
  /\ DOMAIN writers # {}

\* C5 (as claimed): the error of a call with an unsupported format is the
\* "Format not supported" error, not the "Failed to convert" error that wraps
\* the failures of the pipeline.
C5_UnsupportedFormatKind ==
  \A i \in 1..Len(log) :
    log[i].output_format \notin SUPPORTED_FORMATS
      => /\ log[i].raised
         /\ log[i].error.msg = FormatError.msg
         /\ log[i].error.msg # Reraise(WriterError).msg

\* C6: while a session is open under a key (a call with is_first_chunk that
\* got a writer, then only calls without is_first_chunk under that key, and no
\* finalize requested before the latest one), the writer constructed by the
\* first call has received exactly the non-empty trimmed buffers of the
\* session's chunks, in the order of the calls, and every call of the session
\* used that writer.
C6_BlocksInOrder ==
  \A i \in 1..Len(log) :
    LET k == log[i].key
        InSession(e) == e.key = k /\ e.stage \notin {"format", "normalize"}
        Handed(e) == InSession(e) /\ BufLen(e.audio_chunk.audio) > 0
        rest == SubSeq(log, i, Len(log))
        sent == SelectSeq(rest, Handed)
    IN ( /\ log[i].is_first_chunk /\ log[i].created # 0
         /\ \A m \in (i + 1)..Len(log) :
              log[m].key = k => ~log[m].is_first_chunk
         /\ \A m \in i..(Len(log) - 1) :
              log[m].key = k => ~log[m].finalized )
       => /\ objs[log[i].created].blocks =
               [n \in 1..Len(sent) |-> sent[n].audio_chunk.audio]
          /\ \A m \in i..Len(log) :
               InSession(log[m]) => log[m].writer = log[i].created

\* C6 witness: a session of three calls has handed three blocks, not all
\* equal, to its writer
C6_Witness ==
  /\ Len(log) = 3
  /\ log[1].is_first_chunk /\ ~log[2].is_first_chunk /\ ~log[3].is_first_chunk
  /\ \A m \in 1..3 : log[m].key = <<"wav", 24000>> /\ log[m].wrote
  /\ ~log[1].finalized /\ ~log[2].finalized
  /\ Len(objs[log[1].created].blocks) = 3
  /\ objs[log[1].created].blocks[1] # objs[log[1].created].blocks[2]

\* C7: a call for (format, sample_rate) leaves the entry of every other key of
\* _writers as it was (neither created, replaced nor removed), leaves every
\* writer object constructed for another key as it was, and constructs
\* writers for its own key only.
C7_OtherKeysUntouched ==
  [][ Len(log') = Len(log) + 1
      => LET e == log'[Len(log')]
             k == <<e.output_format, e.sample_rate>>
         IN /\ \A k2 \in (DOMAIN writers \cup DOMAIN writers') \ {k} :
                 /\ k2 \in DOMAIN writers /\ k2 \in DOMAIN writers'
                 /\ writers'[k2] = writers[k2]
            /\ \A w \in 1..Len(objs) : objs[w].key # k => objs'[w] = objs[w]
            /\ \A w \in (Len(objs) + 1)..Len(objs') : objs'[w].key = k ]_vars

\* C7 witness: calls under two keys have interleaved and both writers are live
C7_Witness ==
  /\ Len(log) = 3
  /\ log[1].key # log[2].key /\ log[3].key = log[1].key
  /\ log[1].wrote /\ log[2].wrote /\ log[3].wrote
  /\ Cardinality(DOMAIN writers) = 2

\* C8: the range returned by the locator satisfies
\* 0 <= start_index <= end_index <= len(buffer).
C8_RangeWithinBuffer ==
  loc.done =>
    /\ 0 <= loc.range[1]
    /\ loc.range[1] <= loc.range[2]
    /\ loc.range[2] <= BufLen(loc.in.audio_data)

\* C8 witness: the locator has trimmed a buffer at both ends
C8_Witness ==
  /\ loc.done
  /\ 0 < loc.range[1] /\ loc.range[1] < loc.range[2]
  /\ loc.range[2] < BufLen(loc.in.audio_data)

\* C9 (as claimed): when some sample's magnitude exceeds the threshold, the
\* range is built from the first and the last index of such a sample.
C9_LoudByMagnitude ==
  loc.done =>
    LET b == loc.in.audio_data
        loud == { r \in 1..Len(b) : b[r].v > amplitude_threshold
                                    \/ -b[r].v > amplitude_threshold }
        r1 == CHOOSE r \in loud : \A q \in loud : r <= q
        r2 == CHOOSE r \in loud : \A q \in loud : r >= q
        first_loud == BufLen(SubSeq(b, 1, r1 - 1))
        last_loud == BufLen(SubSeq(b, 1, r2)) - 1
        pad == samples_to_pad_end(loc.in.cfg, loc.in.chunk_text, loc.in.is_last_chunk)
    IN loud # {} =>
         loc.range = << Max(first_loud - samples_to_pad_start, 0),
                        Min(last_loud + Ceil(pad * loc.in.speed.den, loc.in.speed.num),
                            BufLen(b)) >>

\* C10 (as claimed): every word timestamp is reduced by the number of samples
\* removed from the front of the buffer, fixed trim included.
C10_RebasedToTrimmedStart ==
  trm.done =>
    \A i \in 1..Len(trm.in.audio_chunk.word_timestamps) :
      LET before == trm.in.audio_chunk.word_timestamps[i]
          after == trm.out.word_timestamps[i]
          removed == trm.out.cut_front + trm.out.start_index
      IN /\ after.start_time = before.start_time - removed
         /\ after.end_time = before.end_time - removed


\* C11: trim_audio subtracts the locator's start_index (in 1/24000 s) from
\* start_time and from end_time of every word timestamp, without clamping, so
\* that the word and its duration are kept; also for a silent buffer, where
\* start_index is 0.
C11_TimestampsShiftedByStartIndex ==
  trm.done =>
    /\ Len(trm.out.word_timestamps) = Len(trm.in.audio_chunk.word_timestamps)
    /\ \A i \in 1..Len(trm.in.audio_chunk.word_timestamps) :
         LET before == trm.in.audio_chunk.word_timestamps[i]
             after == trm.out.word_timestamps[i]
         IN /\ after.word = before.word
            /\ after.start_time = before.start_time - trm.out.start_index
            /\ after.end_time = before.end_time - trm.out.start_index
            /\ after.end_time - after.start_time
                 = before.end_time - before.start_time

\* C11 witness: a chunk was trimmed at the front and one of its timestamps
\* became negative
C11_Witness ==
  /\ trm.done
  /\ trm.out.start_index > 0
  /\ \E i \in 1..Len(trm.out.word_timestamps) :
       /\ trm.out.word_timestamps[i].start_time < 0
       /\ trm.out.word_timestamps[i].end_time < 0


\* C12 (as claimed): for a non-last chunk at one speed, the trailing pad for
\* multiplier 2 is twice the trailing pad for multiplier 1.
C12_PadDoubles ==
  ( /\ pads.done /\ ~pads.in.is_last_chunk
    /\ pads.in.speed1 = pads.in.speed2
    /\ pads.mult1 = 10 /\ pads.mult2 = 20 )
  => pads.pad2 = 2 * pads.pad1

\* C12 (amended): for a non-last chunk and a dynamic pad duration of at least
\* 50 ms, the trailing pad before the division by the speed is, for
\* multiplier 2, twice the one for multiplier 1 plus the 1200 samples of the
\* leading pad: the duration is doubled and the leading pad subtracted once.
C12_PadDoublesBeforeSubtraction ==
  ( /\ pads.done /\ ~pads.in.is_last_chunk
    /\ pads.mult1 = 10 /\ pads.mult2 = 20
    /\ pads.in.cfg.dynamic_gap_trim_padding_ms >= 50 )
  => /\ pads.end2 = 2 * pads.end1 + 1200
     /\ pads.end2 + 1200 = 2 * (pads.end1 + 1200)

\* C12 witness: pads for multipliers 1 and 2 were computed, both positive
C12_Witness ==
  /\ pads.done /\ ~pads.in.is_last_chunk
  /\ pads.mult1 = 10 /\ pads.mult2 = 20
  /\ pads.in.cfg.dynamic_gap_trim_padding_ms = 410
  /\ pads.end1 > 0 /\ pads.end2 > pads.end1

\* C13 (as claimed): for a non-last chunk with one text, a greater speed gives
\* a strictly smaller trailing pad whenever the pad of the smaller speed is
\* positive, and no pad is negative.
C13_PadStrictlyDecreasing ==
  ( /\ pads.done /\ ~pads.in.is_last_chunk
    /\ pads.in.text1 = pads.in.text2
    /\ pads.in.speed1.num * pads.in.speed2.den < pads.in.speed2.num * pads.in.speed1.den )
  => /\ pads.pad1 >= 0 /\ pads.pad2 >= 0
     /\ (pads.pad1 > 0 => pads.pad2 < pads.pad1)

\* C13 (amended): a greater speed never gives a greater trailing pad, and no
\* pad is negative.
C13_PadNonIncreasing ==
  ( /\ pads.done /\ ~pads.in.is_last_chunk
    /\ pads.in.text1 = pads.in.text2
    /\ pads.in.speed1.num * pads.in.speed2.den < pads.in.speed2.num * pads.in.speed1.den )
  => /\ pads.pad1 >= 0 /\ pads.pad2 >= 0
     /\ pads.pad2 <= pads.pad1

\* C13 witness: two speeds were compared on a positive pad, the greater speed
\* giving the smaller pad
C13_Witness ==
  /\ pads.done /\ ~pads.in.is_last_chunk
  /\ pads.in.text1 = pads.in.text2
  /\ pads.in.speed1.num * pads.in.speed2.den < pads.in.speed2.num * pads.in.speed1.den
  /\ pads.pad1 > 0 /\ pads.pad2 < pads.pad1


\* C14 (as claimed): for a non-empty buffer in which every sample is above the
\* threshold, the locator returns (0, len(buffer)).
C14_LoudThroughoutKeptWhole ==
  ( /\ loc.done
    /\ loc.in.audio_data # <<>>
    /\ \A r \in 1..Len(loc.in.audio_data) :
         loc.in.audio_data[r].v > amplitude_threshold )
  => loc.range = <<0, BufLen(loc.in.audio_data)>>

\* C15: for a buffer in which no sample is above the threshold (in particular
\* when no sample's magnitude is), the locator returns (0, len(buffer)),
\* whatever the text, the speed and is_last_chunk.
C15_SilentKeptWhole ==
  ( /\ loc.done
    /\ \A r \in 1..Len(loc.in.audio_data) :
         loc.in.audio_data[r].v <= amplitude_threshold )
  => loc.range = <<0, BufLen(loc.in.audio_data)>>

\* C15 witness: the locator has run on a non-empty buffer of zeros, for a last
\* chunk with a trailing comma
C15_Witness ==
  /\ loc.done
  /\ loc.in.audio_data = <<Run(0, 3000)>>
  /\ loc.in.chunk_text = <<"a", ",">>
  /\ loc.in.is_last_chunk
  /\ loc.range = <<0, 3000>>


\* C16 (as claimed): a call with a supported format, a non-empty buffer and
\* is_last_chunk false whose trimmed buffer is empty does not write, does not
\* raise, returns, and leaves the writer of its key in _writers.
C16_EmptyTrimmedReturnsEmpty ==
  \A i \in 1..Len(log) :
    ( /\ log[i].output_format \in SUPPORTED_FORMATS
      /\ BufLen(log[i].chunk_in.audio) > 0
      /\ ~log[i].is_last_chunk
      /\ log[i].stage \notin {"format", "normalize"}
      /\ BufLen(log[i].audio_chunk.audio) = 0 )
    => /\ ~log[i].wrote
       /\ ~log[i].raised
       /\ log[i].key \in log[i].live

\* C17 (as claimed): with T = samples_to_trim, a buffer of length L > 2 * T
\* leaves lines 197-198 as its samples T .. L - T - 1, and a buffer of length
\* L <= 2 * T leaves them unchanged.
C17_FixedTrimBothEnds ==
  trm.done =>
    LET T == (trm.in.cfg.gap_trim_ms * 24000) \div 1000
        L == BufLen(trm.in.audio_chunk.audio)
    IN /\ L > 2 * T =>
            /\ trm.out.after_fixed = Cut(trm.in.audio_chunk.audio, T, L - T)
            /\ BufLen(trm.out.after_fixed) = L - 2 * T
       /\ L <= 2 * T => trm.out.after_fixed = trm.in.audio_chunk.audio


\* C18: a key leaves _writers only in a call under that key with
\* is_last_chunk that requested finalize and returned; every other step (a
\* call that is not last, a call that raises, a call under another key or
\* format) keeps every key that was present.
C18_EntryStaysUntilFinalized ==
  [][ \A k \in DOMAIN writers :
        k \notin DOMAIN writers'
          => /\ Len(log') = Len(log) + 1
             /\ log'[Len(log')].key = k
             /\ log'[Len(log')].is_last_chunk
             /\ log'[Len(log')].finalized
             /\ ~log'[Len(log')].raised ]_vars

\* C18 witness: a writer entered the map in the first call and is still
\* there, unfinalized, after a call that raised and a call that was not last
C18_Witness ==
  /\ Len(log) = 3
  /\ log[1].created # 0 /\ ~log[1].raised /\ ~log[1].is_last_chunk
  /\ log[2].raised /\ log[2].key = log[1].key
  /\ ~log[3].raised /\ ~log[3].is_last_chunk /\ ~log[3].is_first_chunk
  /\ log[1].key \in DOMAIN writers
  /\ writers[log[1].key] = log[1].created
  /\ objs[log[1].created].finalized = 0

\* C19: when a call with is_first_chunk reaches line 156 while a writer is
\* live under its key, it constructs a new writer that replaces the live one,
\* and no error comes from the replacement (the call raises only if its own
\* write, finalize or return does); the next call under the key without
\* is_first_chunk uses the new writer, not the one that was live before.
C19_FirstChunkReplacesLiveWriter ==
  \A i \in 1..Len(log) : \A j \in (i + 1)..Len(log) :
    ( /\ log[j].key = log[i].key
      /\ \A n \in (i + 1)..(j - 1) : log[n].key # log[i].key
      /\ log[i].writer # 0 /\ log[i].key \in log[i].live
      /\ log[j].is_first_chunk
      /\ log[j].stage \notin {"format", "normalize"} )
    => /\ log[j].created # 0
       /\ log[j].created # log[i].writer
       /\ log[j].writer = log[j].created
       /\ log[j].raised => log[j].stage \in {"write", "finalize", "return"}
       /\ \A m \in (j + 1)..Len(log) :
            ( /\ log[m].key = log[i].key
              /\ \A n \in (j + 1)..(m - 1) : log[n].key # log[i].key
              /\ log[j].key \in log[j].live
              /\ ~log[m].is_first_chunk
              /\ log[m].stage \notin {"format", "normalize"} )
            => /\ log[m].writer = log[j].created
               /\ log[m].wrote =>
                    \E b \in 1..Len(objs[log[j].created].blocks) :
                      objs[log[j].created].blocks[b] = log[m].audio_chunk.audio

\* C19 witness: stream A's first chunk, then stream B's first chunk under the
\* same key, then A's second chunk, none raising: A's second block is in the
\* writer constructed for B, and A's writer holds A's first block only
C19_Witness ==
  /\ Len(log) = 3
  /\ \A m \in 1..3 : ~log[m].raised /\ log[m].wrote /\ ~log[m].is_last_chunk
                     /\ log[m].key = <<"wav", 24000>>
  /\ log[1].is_first_chunk /\ log[2].is_first_chunk /\ ~log[3].is_first_chunk
  /\ log[1].created = 1 /\ log[2].created = 2 /\ log[3].writer = 2
  /\ objs[1].blocks = <<log[1].audio_chunk.audio>>
  /\ objs[2].blocks = <<log[2].audio_chunk.audio, log[3].audio_chunk.audio>>
  /\ objs[1].finalized = 0

\* C20 (as claimed): every writer constructed is the entry of its key in
\* _writers or has had finalize requested.
C20_LiveOrFinalized ==
  \A w \in 1..Len(objs) :
    \/ (objs[w].key \in DOMAIN writers /\ writers[objs[w].key] = w)
    \/ objs[w].finalized >= 1

\* C20 (amended): every writer constructed is the entry of its key in
\* _writers, or has had finalize requested, or was replaced by the writer
\* that a later call with is_first_chunk under the same key constructed (the
\* next writer constructed under its key is that call's).
C20_LiveFinalizedOrReplaced ==
  \A w \in 1..Len(objs) :
    \/ (objs[w].key \in DOMAIN writers /\ writers[objs[w].key] = w)
    \/ objs[w].finalized >= 1
    \/ \E j \in 1..Len(log) :
         /\ log[j].created > w
         /\ log[j].is_first_chunk
         /\ log[j].key = objs[w].key
         /\ \A n \in 1..Len(log) :
              (log[n].key = objs[w].key /\ log[n].created > w)
                => log[n].created >= log[j].created

\* C20 witness: a writer that was never asked to finalize has left the map,
\* replaced by the writer of a later first chunk
C20_Witness ==
  /\ Len(objs) >= 2
  /\ objs[1].finalized = 0
  /\ objs[1].key \in DOMAIN writers /\ writers[objs[1].key] # 1
  /\ \E j \in 2..Len(log) : log[j].is_first_chunk /\ log[j].created = 2

====
